---- MODULE Spec2Model ----
(***************************************************************************)
(* Model of transform_caldracor_tgr.py: eight in-place rules on a TEI      *)
(* element tree and the process_file pipeline that calls them in order.    *)
(*                                                                         *)
(* A string is a sequence of fragments (TLA+ strings used as atoms); the   *)
(* string it stands for is the concatenation of the fragments.  The        *)
(* fragments are chosen so that no fragment is a concatenation of others   *)
(* and none overlaps "Rojas" = "Ro" + "jas" or "Antonio", so equality,     *)
(* concatenation, trimming and substring search on fragment sequences      *)
(* coincide with the same operations on the characters.                    *)
(* text = None and tail = None of lxml are the empty sequence (a parsed    *)
(* document never holds an empty text that is not None).                   *)
(* An element is a record [tag, attrs, text, tail, children]; attrs is a   *)
(* function from attribute names to strings; every element is in the TEI   *)
(* namespace.                                                              *)
(***************************************************************************)
EXTENDS Naturals, Sequences, FiniteSets, TLC

VARIABLES
    root,      \* the element tree, mutated in place by the rules
    basename,  \* the name of the input file without its extension
    root0,     \* the tree as parsed
    applied,   \* the rule functions called on the tree so far
    ordered,   \* the calls so far kept the order of process_file on shared parents
    limit      \* how many rule functions the caller calls on the tree

vars == <<root, basename, root0, applied, ordered, limit>>

----------------------------------------------------------------------------
(* Strings                                                                 *)

Empty == <<>>

\* str.isspace() for one fragment: the blank and the non-breaking space
IsSpace(c) == c \in {" ", "nbsp"}

RECURSIVE LStrip(_)
LStrip(s) == IF s # <<>> /\ IsSpace(Head(s)) THEN LStrip(Tail(s)) ELSE s

RECURSIVE RStrip(_)
RStrip(s) ==
    IF s # <<>> /\ IsSpace(s[Len(s)]) THEN RStrip(SubSeq(s, 1, Len(s) - 1)) ELSE s

\* str.strip()
Strip(s) == LStrip(RStrip(s))

\* str.replace("\xa0", " ")
ReplaceNbsp(s) == [i \in 1..Len(s) |-> IF s[i] = "nbsp" THEN " " ELSE s[i]]

\* the operator `in` on strings: needle in hay
Contains(hay, needle) ==
    \E i \in 1..(Len(hay) + 1) :
        /\ i + Len(needle) - 1 <= Len(hay)
        /\ SubSeq(hay, i, i + Len(needle) - 1) = needle

----------------------------------------------------------------------------
(* Constants of the program                                                *)

\* long constants are one fragment each, written in ASCII
PUBLISHER_TEXT == <<"Tracing Regularities in Pedro Calderon de la Barca's Dramatic OEuvre with a Computational Approach (508056339)">>
ORCID_ROJAS == <<"https://orcid.org/0000-0002-8916-4997">>
WIKIDATA_URL == <<"https://www.wikidata.org/wiki/">>
GND_URL == <<"https://d-nb.info/gnd/">>
BK_SCHEME == <<"http://uri.gbv.de/terminology/bk/">>
GND_SCHEME == <<"https://d-nb.info/gnd/">>
TG_SCHEME == <<"http://textgrid.info/namespaces/metadata/core/2010#genre">>
Rojas == <<"Ro", "jas">>
Antonio == <<"Antonio">>

----------------------------------------------------------------------------
(* Element trees                                                           *)

NoAttrs == [k \in {} |-> Empty]

\* an attribute map from a set of <<name, value>> pairs with distinct names
Attrs(pairs) ==
    [k \in {p[1] : p \in pairs} |-> (CHOOSE p \in pairs : p[1] = k)[2]]

\* etree.Element / a parsed element
Elem(tag, attrs, text, tail, children) ==
    [tag |-> tag, attrs |-> attrs, text |-> text, tail |-> tail, children |-> children]

\* element.get(k) is not None
Has(n, k) == k \in DOMAIN n.attrs

\* bool(element.get(k)): the attribute is there and is not the empty string
Truthy(n, k) == Has(n, k) /\ n.attrs[k] # Empty

\* element.get(k) == v
AttrIs(n, k, v) == Has(n, k) /\ n.attrs[k] = v

\* element.set(k, v)
SetAttr(n, k, v) ==
    [n EXCEPT !.attrs = [x \in DOMAIN n.attrs \cup {k} |-> IF x = k THEN v ELSE n.attrs[x]]]

\* etree.SubElement(parent, tag): a new last child, returned by AppendChild
AppendChild(n, c) == [n EXCEPT !.children = Append(n.children, c)]

RECURSIVE Paths(_)
RECURSIVE ChildPaths(_, _)
\* the elements of the tree in document order, each as the sequence of child
\* indexes leading to it from the root (the root is <<>>)
Paths(n) == <<Empty>> \o ChildPaths(n, 1)
ChildPaths(n, i) ==
    IF i > Len(n.children) THEN <<>>
    ELSE LET sub == Paths(n.children[i])
         IN  [j \in 1..Len(sub) |-> <<i>> \o sub[j]] \o ChildPaths(n, i + 1)

RECURSIVE NodeAt(_, _)
NodeAt(n, p) == IF p = <<>> THEN n ELSE NodeAt(n.children[Head(p)], Tail(p))

RECURSIVE SetAt(_, _, _)
\* the tree with the element at path p replaced by m (an in-place mutation)
SetAt(n, p, m) ==
    IF p = <<>> THEN m
    ELSE [n EXCEPT !.children[Head(p)] = SetAt(n.children[Head(p)], Tail(p), m)]

Parent(p) == SubSeq(p, 1, Len(p) - 1)

IsPrefix(p, q) == Len(p) <= Len(q) /\ SubSeq(q, 1, Len(p)) = p

\* the children of n with the given tag, as indexes in order
ChildIdx(n, tag) == SelectSeq([i \in 1..Len(n.children) |-> i],
                              LAMBDA i : n.children[i].tag = tag)

\* element.find("tei:tag") is not None
HasChild(n, tag) == \E i \in 1..Len(n.children) : n.children[i].tag = tag

\* //tei:tag : every element with the tag, in document order
Descendants(r, tag) == SelectSeq(Paths(r), LAMBDA p : NodeAt(r, p).tag = tag)

\* //tei:ptag/tei:tag : every element with the tag whose parent has tag ptag
ChildrenOf(r, ptag, tag) ==
    SelectSeq(Paths(r), LAMBDA p : /\ p # <<>>
                                   /\ NodeAt(r, p).tag = tag
                                   /\ NodeAt(r, Parent(p)).tag = ptag)

RECURSIVE IterText(_)
RECURSIVE IterTextFrom(_, _)
\* element.itertext(): the text chunks inside the element in document order
\* (its text, then for each child the child's chunks and the child's tail)
IterText(n) == (IF n.text = Empty THEN <<>> ELSE <<n.text>>) \o IterTextFrom(n, 1)
IterTextFrom(n, i) ==
    IF i > Len(n.children) THEN <<>>
    ELSE IterText(n.children[i])
         \o (IF n.children[i].tail = Empty THEN <<>> ELSE <<n.children[i].tail>>)
         \o IterTextFrom(n, i + 1)

RECURSIVE Join(_, _)
\* sep.join(chunks)
Join(sep, chunks) ==
    IF chunks = <<>> THEN Empty
    ELSE IF Len(chunks) = 1 THEN chunks[1]
    ELSE chunks[1] \o sep \o Join(sep, Tail(chunks))

----------------------------------------------------------------------------
(* The rules                                                               *)

S(x) == <<x>>

\* //tei:idno[@type="..."]
IdnosOfType(r, type) ==
    SelectSeq(Paths(r), LAMBDA p : /\ NodeAt(r, p).tag = "idno"
                                   /\ AttrIs(NodeAt(r, p), "type", type))

\* add_wikidata_corresp, the body of the loop for one idno
WikidataIdno(idno) ==
    LET qid == Strip(idno.text)
    IN  IF qid # Empty /\ ~Truthy(idno, "corresp")
        THEN SetAttr(idno, "corresp", WIKIDATA_URL \o qid)
        ELSE idno

RECURSIVE WikidataLoop(_, _)
WikidataLoop(r, ps) ==
    IF ps = <<>> THEN r
    ELSE WikidataLoop(SetAt(r, Head(ps), WikidataIdno(NodeAt(r, Head(ps)))), Tail(ps))

\* a variant whose query leaves out the test of the type
add_wikidata_corresp_AnyIdno(r) ==
    WikidataLoop(r, SelectSeq(Paths(r), LAMBDA p : NodeAt(r, p).tag = "idno"))

add_wikidata_corresp(r) == WikidataLoop(r, IdnosOfType(r, S("wikidata")))

\* convert_pnd_to_gnd, the body of the loop for one idno
PndIdno(idno) ==
    LET num == Strip(idno.text)
        relabelled == SetAttr(idno, "type", S("gnd"))
    IN  IF num # Empty /\ ~Truthy(relabelled, "corresp")
        THEN SetAttr(relabelled, "corresp", GND_URL \o num)
        ELSE relabelled

RECURSIVE PndLoop(_, _)
PndLoop(r, ps) ==
    IF ps = <<>> THEN r
    ELSE PndLoop(SetAt(r, Head(ps), PndIdno(NodeAt(r, Head(ps)))), Tail(ps))

convert_pnd_to_gnd(r) == PndLoop(r, IdnosOfType(r, S("pnd")))

\* <langUsage><language ident="spa">Spanish</language></langUsage>
LangUsageSpanish ==
    Elem("langUsage", NoAttrs, Empty, Empty,
         <<Elem("language", Attrs({<<"ident", S("spa")>>}), S("Spanish"), Empty, <<>>)>>)

\* a variant that looks for the language element among the children
LangUsageProfile_FindsLanguage(profile_desc) ==
    IF ~HasChild(profile_desc, "language")
    THEN AppendChild(profile_desc, LangUsageSpanish)
    ELSE profile_desc

\* ensure_langusage_spanish, the body of the loop for one profileDesc
LangUsageProfile(profile_desc) ==
    IF ~HasChild(profile_desc, "langUsage")
    THEN AppendChild(profile_desc, LangUsageSpanish)
    ELSE profile_desc

RECURSIVE LangUsageLoop(_, _)
LangUsageLoop(r, ps) ==
    IF ps = <<>> THEN r
    ELSE LangUsageLoop(SetAt(r, Head(ps), LangUsageProfile(NodeAt(r, Head(ps)))), Tail(ps))

ensure_langusage_spanish(r) == LangUsageLoop(r, Descendants(r, "profileDesc"))

Term(attrs, text) == Elem("term", attrs, text, Empty, <<>>)

KwBk ==
    Elem("keywords", Attrs({<<"scheme", BK_SCHEME>>}), Empty, Empty,
         << Term(Attrs({<<"type", S("basicClassification")>>, <<"key", S("17.97")>>}),
                 S("Texts by a single author")),
            Term(Attrs({<<"type", S("basicClassification")>>, <<"key", S("18.30")>>}),
                 S("Spanish language and literature")) >>)

KwGnd ==
    Elem("keywords", Attrs({<<"scheme", GND_SCHEME>>}), Empty, Empty,
         << Term(Attrs({<<"type", S("testament")>>,
                        <<"ref", S("http://d-nb.info/gnd/4304080-9")>>}),
                 S("Theaterstueck")) >>)

KwTg ==
    Elem("keywords", Attrs({<<"scheme", TG_SCHEME>>}), Empty, Empty,
         << Term(Attrs({<<"type", S("genre-tg")>>}), S("drama")) >>)

\* text_class.xpath('tei:keywords[@scheme="..."]') is not empty
HasKeywords(text_class, scheme) ==
    \E i \in 1..Len(text_class.children) :
        /\ text_class.children[i].tag = "keywords"
        /\ AttrIs(text_class.children[i], "scheme", scheme)

\* a variant whose query leaves out the test of the scheme
EnsureKeywords_AnyScheme(text_class, scheme, group) ==
    IF ~HasChild(text_class, "keywords") THEN AppendChild(text_class, group) ELSE text_class

\* one of the three blocks of the loop body: append group if its scheme is missing
EnsureKeywords(text_class, scheme, group) ==
    IF ~HasKeywords(text_class, scheme) THEN AppendChild(text_class, group) ELSE text_class

\* ensure_textclass_keywords, the body of the loop for one textClass
KeywordsTextClass(text_class) ==
    EnsureKeywords(EnsureKeywords(EnsureKeywords(text_class, BK_SCHEME, KwBk),
                                  GND_SCHEME, KwGnd),
                   TG_SCHEME, KwTg)

RECURSIVE KeywordsLoop(_, _)
KeywordsLoop(r, ps) ==
    IF ps = <<>> THEN r
    ELSE KeywordsLoop(SetAt(r, Head(ps), KeywordsTextClass(NodeAt(r, Head(ps)))), Tail(ps))

ensure_textclass_keywords(r) == KeywordsLoop(r, Descendants(r, "textClass"))

\* a variant that joins the chunks without a separator
FullText_Concat(pers) == ReplaceNbsp(Strip(Join(Empty, IterText(pers))))

\* " ".join(pers.itertext()).strip().replace("\xa0", " ")
FullText(pers) == ReplaceNbsp(Strip(Join(S(" "), IterText(pers))))

\* the heuristic of normalize_persname_rojas
IsRojas(pers) ==
    \/ AttrIs(pers, "xml:id", S("rojas"))
    \/ (Contains(FullText(pers), Rojas) /\ Contains(FullText(pers), Antonio))

\* pers.clear() and the rebuilding that follows it
RebuiltPers ==
    Elem("persName",
         Attrs({<<"xml:id", S("rojas")>>, <<"corresp", ORCID_ROJAS>>}),
         Empty, Empty,
         << Elem("forename", NoAttrs, Antonio, Empty, <<>>),
            Elem("surname", NoAttrs, Rojas \o S(" ") \o S("Castro"), Empty, <<>>) >>)

\* normalize_persname_rojas, the body of the loop for one persName
RojasPers(pers) == IF IsRojas(pers) THEN RebuiltPers ELSE pers

RECURSIVE RojasLoop(_, _, _)
\* gone: the paths rebuilt so far; an element below one of them was detached
\* from the tree by clear(), and mutating it does not change the tree
RojasLoop(r, ps, gone) ==
    IF ps = <<>> THEN r
    ELSE LET p == Head(ps)
         IN  IF \E g \in gone : IsPrefix(g, p)
             THEN RojasLoop(r, Tail(ps), gone)
             ELSE IF IsRojas(NodeAt(r, p))
                  THEN RojasLoop(SetAt(r, p, RojasPers(NodeAt(r, p))), Tail(ps),
                                 gone \cup {p})
                  ELSE RojasLoop(r, Tail(ps), gone)

normalize_persname_rojas(r) == RojasLoop(r, ChildrenOf(r, "respStmt", "persName"), {})

\* root.xpath("//tei:fileDesc/tei:publicationStmt")
PubStmts(r) == ChildrenOf(r, "fileDesc", "publicationStmt")

\* a variant that creates a publisher without looking for one
PublisherIn_Append(pub_stmt) ==
    AppendChild(pub_stmt, Elem("publisher", NoAttrs, PUBLISHER_TEXT, Empty, <<>>))

\* the publisher part of ensure_publisher on the chosen publicationStmt
PublisherIn(pub_stmt) ==
    IF ~HasChild(pub_stmt, "publisher")
    THEN AppendChild(pub_stmt, Elem("publisher", NoAttrs, PUBLISHER_TEXT, Empty, <<>>))
    ELSE LET i == Head(ChildIdx(pub_stmt, "publisher"))
         IN  [pub_stmt EXCEPT !.children[i].text = PUBLISHER_TEXT]

ensure_publisher(r) ==
    LET pub_stmts == PubStmts(r)
    IN  IF pub_stmts = <<>> THEN r
        ELSE SetAt(r, Head(pub_stmts), PublisherIn(NodeAt(r, Head(pub_stmts))))

\* pub_stmt.xpath('tei:idno[@type="caldracor"]')
CaldracorIdnos(pub_stmt) ==
    SelectSeq(pub_stmt.children,
              LAMBDA c : c.tag = "idno" /\ AttrIs(c, "type", S("caldracor")))

\* a variant that sets the text of the idno it finds
CaldracorIn_Overwrite(pub_stmt, name) ==
    IF CaldracorIdnos(pub_stmt) # <<>>
    THEN LET i == CHOOSE j \in 1..Len(pub_stmt.children) :
                    /\ pub_stmt.children[j].tag = "idno"
                    /\ AttrIs(pub_stmt.children[j], "type", S("caldracor"))
         IN  [pub_stmt EXCEPT !.children[i].text = name]
    ELSE AppendChild(pub_stmt,
                     Elem("idno", Attrs({<<"type", S("caldracor")>>}), name, Empty, <<>>))

\* the idno part of ensure_caldracor_id on the chosen publicationStmt
CaldracorIn(pub_stmt, name) ==
    IF CaldracorIdnos(pub_stmt) # <<>> THEN pub_stmt
    ELSE AppendChild(pub_stmt,
                     Elem("idno", Attrs({<<"type", S("caldracor")>>}), name, Empty, <<>>))

ensure_caldracor_id(r, name) ==
    LET pub_stmts == PubStmts(r)
    IN  IF pub_stmts = <<>> THEN r
        ELSE SetAt(r, Head(pub_stmts), CaldracorIn(NodeAt(r, Head(pub_stmts)), name))

\* root.xpath("//tei:standOff/tei:listEvent/tei:event[@type='...']")
EventsOfType(r, type) ==
    SelectSeq(Paths(r), LAMBDA p : /\ Len(p) >= 2
                                   /\ NodeAt(r, p).tag = "event"
                                   /\ AttrIs(NodeAt(r, p), "type", type)
                                   /\ NodeAt(r, Parent(p)).tag = "listEvent"
                                   /\ NodeAt(r, Parent(Parent(p))).tag = "standOff")

DateAttrs == <<"when", "notBefore", "notAfter">>

\* the loop copying the date-related attributes of the event
CopiedAttrs(event_el) ==
    [a \in {DateAttrs[i] : i \in {j \in 1..Len(DateAttrs) : Truthy(event_el, DateAttrs[j])}}
        |-> event_el.attrs[a]]

\* <creation><date .../></creation>
CreationFrom(event_el) ==
    Elem("creation", NoAttrs, Empty, Empty,
         <<Elem("date", CopiedAttrs(event_el), Empty, Empty, <<>>)>>)

\* root.find(".//tei:profileDesc"): the descendants of the root, not the root
FirstProfileDesc(r) == SelectSeq(Descendants(r, "profileDesc"), LAMBDA p : p # <<>>)

\* the chosen event: the first "written" one, else the first "print" one
SourceEvent(r) ==
    LET events_written == EventsOfType(r, S("written"))
        events_print == EventsOfType(r, S("print"))
    IN  IF events_written # <<>> THEN <<Head(events_written)>>
        ELSE IF events_print # <<>> THEN <<Head(events_print)>>
        ELSE <<>>

\* a variant without the test for a creation that is there
ensure_creation_from_events_Unchecked(r) ==
    LET found == FirstProfileDesc(r)
    IN  IF found = <<>> THEN r
        ELSE IF SourceEvent(r) = <<>> THEN r
        ELSE SetAt(r, Head(found),
                   AppendChild(NodeAt(r, Head(found)),
                               CreationFrom(NodeAt(r, Head(SourceEvent(r))))))

ensure_creation_from_events(r) ==
    LET found == FirstProfileDesc(r)
    IN  IF found = <<>> THEN r
        ELSE LET profile_desc == NodeAt(r, Head(found))
             IN  IF HasChild(profile_desc, "creation") THEN r
                 ELSE IF SourceEvent(r) = <<>> THEN r
                 ELSE SetAt(r, Head(found),
                            AppendChild(profile_desc,
                                        CreationFrom(NodeAt(r, Head(SourceEvent(r))))))

\* the eight calls of process_file, in its order
Pipeline(r, name) ==
    ensure_creation_from_events(
     ensure_caldracor_id(
      ensure_publisher(
       normalize_persname_rojas(
        ensure_textclass_keywords(
         ensure_langusage_spanish(
          convert_pnd_to_gnd(
           add_wikidata_corresp(r)))))), name))

----------------------------------------------------------------------------
(* The documents the model starts from                                     *)

\* bounds of the families of documents
MaxIdnos == 1
MaxPers == 1
MaxProfiles == 2
MaxEvents == 2
\* how many rule functions a caller calls on one tree in Spec
MaxCalls == 2

SeqsUpTo(set, n) == UNION {[1..k -> set] : k \in 0..n}

\* opt is <<>> for an absent attribute and <<v>> for the value v
OptAttr(name, opt) == IF opt = <<>> THEN {} ELSE {<<name, opt[1]>>}

Plain(tag, children) == Elem(tag, NoAttrs, Empty, Empty, children)

Idno(type, text, corresp) ==
    Elem("idno", Attrs({<<"type", type>>} \cup OptAttr("corresp", corresp)),
         text, Empty, <<>>)

IdnoChoices ==
    { Idno(t, x, c) : t \in {S("wikidata"), S("pnd")},
                      x \in {Empty, S(" "), <<"nbsp", "Q42", " ">>},
                      c \in {<<>>, <<Empty>>, <<S("manual")>>} }

Pers(id, text, children) ==
    Elem("persName", Attrs(OptAttr("xml:id", id)), text, S(" "), children)

PersContents ==
    { <<<<"Antonio", " ", "Ro", "jas", " ", "Castro">>, <<>>>>,
      <<<<"Ro", "jas", " ", "Castro", ",", "nbsp", "Antonio">>, <<>>>>,
      <<<<"Ro">>, <<Elem("hi", NoAttrs, S("jas"), <<" ", "Antonio">>, <<>>)>>>>,
      <<Empty, <<Elem("forename", NoAttrs, Antonio, Empty, <<>>),
                 Elem("surname", NoAttrs, Rojas, Empty, <<>>)>>>>,
      <<<<"Antonio">>, <<Elem("idno", Attrs({<<"type", S("wikidata")>>}),
                              S("Q7"), <<"de", " ", "Ro", "jas">>, <<>>)>>>>,
      <<<<"Ro", "jas">>, <<>>>>,
      <<<<"Pedro", " ", "Calderon">>, <<>>>> }

PersChoices ==
    { Pers(id, c[1], c[2]) : id \in {<<>>, <<S("rojas")>>}, c \in PersContents }
    \cup { Pers(<<S("ed")>>, <<"Pedro", " ", "Calderon">>, <<>>) }

Publisher(text) == Elem("publisher", NoAttrs, text, Empty, <<>>)

CaldracorIdno(text) == Idno(S("caldracor"), text, <<>>)

\* the basenames of the input files
DocIds == {S("comedia42"), S("auto7")}

\* the children a publicationStmt may start with
PubChildren ==
    { p \o i : p \in {<<>>, <<Publisher(S("Old Press"))>>,
                      <<Publisher(Empty), Publisher(S("Second"))>>},
               i \in {<<>>, <<CaldracorIdno(S("comedia42"))>>,
                      <<CaldracorIdno(S("manual-id"))>>,
                      <<Idno(S("doi"), S("10.1"), <<>>)>>} }

\* fileDesc/publicationStmt: none or one
PubChoices == {<<>>} \cup {<<Plain("publicationStmt", c)>> : c \in PubChildren}

\* sourceDesc/biblFull/publicationStmt, which is no child of a fileDesc
BiblChoices ==
    {<<>>, <<Plain("biblFull", <<Plain("publicationStmt", <<Publisher(S("Imprenta"))>>)>>)>>}

Keywords(scheme, children) ==
    Elem("keywords", Attrs({<<"scheme", scheme>>}), Empty, Empty, children)

\* the keywords groups a textClass may start with: any of the three schemes
\* with content of its own, a second group of the BK scheme, a foreign scheme
KeywordChoices ==
    { a \o b \o c \o d \o e :
        a \in {<<>>, <<Keywords(BK_SCHEME, <<Term(NoAttrs, S("old"))>>)>>},
        b \in {<<>>, <<KwGnd>>},
        c \in {<<>>, <<Keywords(TG_SCHEME, <<>>)>>},
        d \in {<<>>, <<Keywords(BK_SCHEME, <<>>)>>},
        e \in {<<>>, <<Keywords(S("http://example.org/scheme"), <<>>)>>} }

LangUsageChoices ==
    {<<>>, <<Plain("langUsage", <<Elem("language", Attrs({<<"ident", S("lat")>>}),
                                       S("Latin"), Empty, <<>>)>>)>>}

CreationChoices == {<<>>, <<Plain("creation", <<>>)>>}

Profile(lang, creation, kw) ==
    Plain("profileDesc", lang \o creation \o <<Plain("textClass", kw)>>)

ProfileChoices == { Profile(l, c, <<>>) : l \in LangUsageChoices, c \in CreationChoices }

Event(type, attrs) == Elem("event", Attrs({<<"type", type>>} \cup attrs), Empty, Empty, <<>>)

EventChoices ==
    { Event(S("written"), {<<"notBefore", S("1630")>>, <<"notAfter", S("1640")>>}),
      Event(S("written"), {<<"when", Empty>>, <<"notAfter", S("1640")>>}),
      Event(S("print"), {<<"when", S("1651")>>, <<"n", S("1")>>}),
      Event(S("print"), {}),
      Event(S("premiere"), {<<"when", S("1635")>>}) }

\* a TEI document
Doc(idnos, perss, pub, bibl, profiles, events) ==
    Plain("TEI",
      << Plain("teiHeader",
           << Plain("fileDesc",
                << Plain("titleStmt",
                     << Plain("author", idnos), Plain("respStmt", perss) >>) >>
                \o pub
                \o << Plain("sourceDesc", bibl) >>) >>
           \o profiles),
         Plain("standOff", << Plain("listEvent", events) >>) >>)

DefIdnos == << Idno(S("wikidata"), S("Q42"), <<>>), Idno(S("pnd"), S("118529579"), <<>>) >>
DefPers == << Pers(<<>>, <<"Antonio", " ", "Ro", "jas", " ", "Castro">>, <<>>) >>
DefPub == << Plain("publicationStmt", <<>>) >>
DefProfiles == << Profile(<<>>, <<>>, <<>>) >>
DefEvents == << Event(S("print"), {<<"when", S("1651")>>}),
                Event(S("written"), {<<"notBefore", S("1630")>>}) >>

\* documents that vary one region each
IdnoDocs == { Doc(i, DefPers, DefPub, <<>>, DefProfiles, DefEvents) :
                i \in SeqsUpTo(IdnoChoices, MaxIdnos) }
PersDocs == { Doc(DefIdnos, DefPers \o p, DefPub, <<>>, DefProfiles, DefEvents) :
                p \in SeqsUpTo(PersChoices, MaxPers) }
            \cup { Doc(DefIdnos, <<>>, DefPub, <<>>, DefProfiles, DefEvents) }
PubDocs == { Doc(DefIdnos, DefPers, p, b, DefProfiles, DefEvents) :
                p \in PubChoices, b \in BiblChoices }
ProfileDocs == { Doc(DefIdnos, DefPers, DefPub, <<>>, p, DefEvents) :
                p \in SeqsUpTo(ProfileChoices, MaxProfiles) }
KeywordDocs == { Doc(DefIdnos, DefPers, DefPub, <<>>, <<Profile(<<>>, <<>>, k)>>, DefEvents) :
                k \in KeywordChoices }
EventDocs == { Doc(DefIdnos, DefPers, DefPub, <<>>, DefProfiles, e) :
                e \in SeqsUpTo(EventChoices, MaxEvents) }

\* documents that vary the regions two rules share
OrderDocs ==
    { Doc(DefIdnos, DefPers, p, <<>>, <<Profile(l, c, <<>>)>>, e) :
        p \in {<<>>} \cup { <<Plain("publicationStmt", x \o y)>> :
                              x \in {<<>>, <<Publisher(S("Old Press"))>>},
                              y \in {<<>>, <<CaldracorIdno(S("manual-id"))>>} },
        l \in LangUsageChoices, c \in CreationChoices,
        e \in {<<>>, DefEvents} }

Docs == IdnoDocs \cup PersDocs \cup PubDocs \cup ProfileDocs \cup KeywordDocs
        \cup EventDocs \cup OrderDocs

\* the inputs of process_file: a parsed tree and the basename of its file; the
\* second basename comes with the documents whose publicationStmt varies
Inputs ==
    (Docs \X {S("comedia42")}) \cup ((PubDocs \cup OrderDocs) \X {S("auto7")})

OrderInputs == OrderDocs \X DocIds

----------------------------------------------------------------------------
(* The state machine                                                       *)

Rules == { "add_wikidata_corresp", "convert_pnd_to_gnd", "ensure_langusage_spanish",
           "ensure_textclass_keywords", "normalize_persname_rojas", "ensure_publisher",
           "ensure_caldracor_id", "ensure_creation_from_events" }

\* etree.parse and the basename of the input path
Init ==
    /\ \E in \in Inputs : root = in[1] /\ basename = in[2]
    /\ root0 = root
    /\ applied = {}
    /\ ordered = TRUE
    /\ limit = MaxCalls

InitOrder ==
    /\ \E in \in OrderInputs : root = in[1] /\ basename = in[2]
    /\ root0 = root
    /\ applied = {}
    /\ ordered = TRUE
    /\ limit = Cardinality(Rules)

\* a call of rule on the tree; before: the rules process_file calls before it
\* on a region it shares with them
Call(rule, result, before) ==
    /\ rule \notin applied
    /\ Cardinality(applied) < limit
    /\ root' = result
    /\ applied' = applied \cup {rule}
    /\ ordered' = (ordered /\ before \subseteq applied)
    /\ UNCHANGED <<basename, root0, limit>>

AddWikidataCorresp == Call("add_wikidata_corresp", add_wikidata_corresp(root), {})
ConvertPndToGnd == Call("convert_pnd_to_gnd", convert_pnd_to_gnd(root), {})
EnsureLangusageSpanish ==
    Call("ensure_langusage_spanish", ensure_langusage_spanish(root), {})
EnsureTextclassKeywords ==
    Call("ensure_textclass_keywords", ensure_textclass_keywords(root), {})
NormalizePersnameRojas ==
    Call("normalize_persname_rojas", normalize_persname_rojas(root), {})
EnsurePublisher == Call("ensure_publisher", ensure_publisher(root), {})
EnsureCaldracorId ==
    Call("ensure_caldracor_id", ensure_caldracor_id(root, basename), {"ensure_publisher"})
EnsureCreationFromEvents ==
    Call("ensure_creation_from_events", ensure_creation_from_events(root),
         {"ensure_langusage_spanish"})

\* process_file on a freshly parsed tree
ProcessFile ==
    /\ applied = {}
    /\ root' = Pipeline(root, basename)
    /\ applied' = Rules
    /\ UNCHANGED <<basename, root0, ordered, limit>>

\* the rule functions called one by one, each once and at most limit of them,
\* or process_file
Next ==
    \/ AddWikidataCorresp
    \/ ConvertPndToGnd
    \/ EnsureLangusageSpanish
    \/ EnsureTextclassKeywords
    \/ NormalizePersnameRojas
    \/ EnsurePublisher
    \/ EnsureCaldracorId
    \/ EnsureCreationFromEvents
    \/ ProcessFile

\* a caller that calls at most MaxCalls rules on any of the documents
Spec == Init /\ [][Next]_vars

\* a caller that calls every rule, in any order, on the documents of OrderDocs
SpecOrder == InitOrder /\ [][Next]_vars

----------------------------------------------------------------------------
(* Properties                                                              *)

\* the step is a call of the rule
Called(rule) == rule \notin applied /\ applied' = applied \cup {rule}

\* the step is process_file
Processed == applied = {} /\ applied' = Rules

ThreeSchemes == {BK_SCHEME, GND_SCHEME, TG_SCHEME}

KeywordGroups(n) == SelectSeq(n.children, LAMBDA c : c.tag = "keywords")

\* C1: every rule is idempotent, and so is the pipeline: after a call of a
\* rule (after process_file), calling it again gives a tree equal to the one
\* the call left.
C1_Idempotent ==
    [][ /\ Called("add_wikidata_corresp") => add_wikidata_corresp(root') = root'
        /\ Called("convert_pnd_to_gnd") => convert_pnd_to_gnd(root') = root'
        /\ Called("ensure_langusage_spanish") => ensure_langusage_spanish(root') = root'
        /\ Called("ensure_textclass_keywords") => ensure_textclass_keywords(root') = root'
        /\ Called("normalize_persname_rojas") => normalize_persname_rojas(root') = root'
        /\ Called("ensure_publisher") => ensure_publisher(root') = root'
        /\ Called("ensure_caldracor_id") => ensure_caldracor_id(root', basename) = root'
        /\ Called("ensure_creation_from_events") => ensure_creation_from_events(root') = root'
        /\ Processed => Pipeline(root', basename) = root' ]_vars

\* process_file has run on a document that every rule had something to do on
C1_Witness ==
    /\ applied = Rules
    /\ \A rule \in Rules :
         root0 # (CASE rule = "add_wikidata_corresp" -> add_wikidata_corresp(root0)
                    [] rule = "convert_pnd_to_gnd" -> convert_pnd_to_gnd(root0)
                    [] rule = "ensure_langusage_spanish" -> ensure_langusage_spanish(root0)
                    [] rule = "ensure_textclass_keywords" -> ensure_textclass_keywords(root0)
                    [] rule = "normalize_persname_rojas" -> normalize_persname_rojas(root0)
                    [] rule = "ensure_publisher" -> ensure_publisher(root0)
                    [] rule = "ensure_caldracor_id" -> ensure_caldracor_id(root0, basename)
                    [] OTHER -> ensure_creation_from_events(root0))
    /\ Pipeline(root, basename) = root

\* C2: add_wikidata_corresp leaves the corresp of every wikidata idno that has
\* one as it was, whatever its value (the empty string too) and whatever the
\* text; a node without the attribute and with non-empty trimmed text gains
\* corresp = the Wikidata URL + the trimmed text; no other node gains one.
C2_NeverOverwrites ==
    [][ Called("add_wikidata_corresp") =>
          LET ps == Paths(root)
          IN  /\ Paths(root') = ps
              /\ \A i \in 1..Len(ps) :
                   LET n == NodeAt(root, ps[i])
                       m == NodeAt(root', ps[i])
                       qid == Strip(n.text)
                   IN  (n.tag = "idno" /\ AttrIs(n, "type", S("wikidata"))) =>
                         /\ Has(n, "corresp") => m.attrs = n.attrs
                         /\ (~Has(n, "corresp") /\ qid # Empty) =>
                              m.attrs = SetAttr(n, "corresp", WIKIDATA_URL \o qid).attrs
                         /\ (~Has(n, "corresp") /\ qid = Empty) => m.attrs = n.attrs ]_vars

\* the idno gets corresp = v in the step and did not have this value before
Gains(n, m, v) == AttrIs(m, "corresp", v) /\ ~AttrIs(n, "corresp", v)

\* C3: after convert_pnd_to_gnd no idno of type pnd is left; every node that
\* was one has type gnd; it gains corresp = the GND URL + the trimmed text
\* exactly when it had no corresp attribute and the trimmed text is not empty;
\* with empty or blank text it is relabelled and gains no corresp.
C3_Relabel ==
    [][ Called("convert_pnd_to_gnd") =>
          LET ps == Paths(root)
          IN  /\ Paths(root') = ps
              /\ IdnosOfType(root', S("pnd")) = <<>>
              /\ \A i \in 1..Len(ps) :
                   LET n == NodeAt(root, ps[i])
                       m == NodeAt(root', ps[i])
                       num == Strip(n.text)
                   IN  (n.tag = "idno" /\ AttrIs(n, "type", S("pnd"))) =>
                         /\ AttrIs(m, "type", S("gnd"))
                         /\ Gains(n, m, GND_URL \o num)
                              <=> (~Has(n, "corresp") /\ num # Empty)
                         /\ num = Empty => m.attrs = SetAttr(n, "type", S("gnd")).attrs ]_vars

\* what C4 says of every textClass but for its last clause: what was there
\* stays, a group is appended for a scheme exactly when no child keywords
\* carried it, and as many groups are added as schemes were missing
C4_Added(n, m) ==
    LET before == Len(n.children)
        added == SubSeq(m.children, before + 1, Len(m.children))
        missing == {s \in ThreeSchemes : ~HasKeywords(n, s)}
    IN  /\ Len(m.children) >= before
        /\ SubSeq(m.children, 1, before) = n.children
        /\ \A j \in 1..Len(added) :
             added[j].tag = "keywords" /\ \E s \in ThreeSchemes : AttrIs(added[j], "scheme", s)
        /\ \A s \in ThreeSchemes :
             (\E j \in 1..Len(added) : AttrIs(added[j], "scheme", s)) <=> s \in missing
        /\ Len(added) = Cardinality(missing)

\* C4 as stated: ... and after the rule each textClass has exactly three
\* keywords groups, carrying the three schemes.
C4_ExactlyThree ==
    [][ Called("ensure_textclass_keywords") =>
          LET ps == Descendants(root, "textClass")
          IN  \A i \in 1..Len(ps) :
                LET n == NodeAt(root, ps[i])
                    m == NodeAt(root', ps[i])
                IN  /\ C4_Added(n, m)
                    /\ Len(KeywordGroups(m)) = 3
                    /\ \A s \in ThreeSchemes : HasKeywords(m, s) ]_vars

\* C4 as amended: ... and after the rule each textClass has at least one
\* keywords group for each of the three schemes, and as many keywords groups
\* as before plus one for each scheme that was missing.
C4_EachScheme ==
    [][ Called("ensure_textclass_keywords") =>
          LET ps == Descendants(root, "textClass")
          IN  /\ Descendants(root', "textClass") = ps
              /\ \A i \in 1..Len(ps) :
                   LET n == NodeAt(root, ps[i])
                       m == NodeAt(root', ps[i])
                   IN  /\ C4_Added(n, m)
                       /\ \A s \in ThreeSchemes : HasKeywords(m, s)
                       /\ Len(KeywordGroups(m)) = Len(KeywordGroups(n))
                            + Cardinality({s \in ThreeSchemes : ~HasKeywords(n, s)}) ]_vars

\* the rule has run on a textClass that had a group of one scheme only, and
\* the textClass has two groups more
C4_Witness ==
    /\ applied = {"ensure_textclass_keywords"}
    /\ \E i \in 1..Len(Descendants(root0, "textClass")) :
         LET p == Descendants(root0, "textClass")[i]
         IN  /\ Cardinality({s \in ThreeSchemes : HasKeywords(NodeAt(root0, p), s)}) = 1
             /\ Len(KeywordGroups(NodeAt(root, p))) = Len(KeywordGroups(NodeAt(root0, p))) + 2

\* the rebuilt entry of C5
C5_Canonical(m) ==
    /\ DOMAIN m.attrs = {"xml:id", "corresp"}
    /\ m.attrs["xml:id"] = S("rojas")
    /\ m.attrs["corresp"] = ORCID_ROJAS
    /\ Len(m.children) = 2
    /\ m.children[1].tag = "forename" /\ m.children[1].text = <<"Antonio">>
    /\ m.children[2].tag = "surname" /\ m.children[2].text = <<"Ro", "jas", " ", "Castro">>

\* the flattened text, its chunks joined by sep
C5_Flat(n, sep) == Strip(ReplaceNbsp(Join(sep, IterText(n))))

C5_Matches(n, sep) ==
    \/ AttrIs(n, "xml:id", S("rojas"))
    \/ /\ Contains(C5_Flat(n, sep), <<"Ro", "jas">>)
       /\ Contains(C5_Flat(n, sep), <<"Antonio">>)

C5_Rebuilds(sep) ==
    Called("normalize_persname_rojas") =>
      LET ps == ChildrenOf(root, "respStmt", "persName")
      IN  \A i \in 1..Len(ps) :
            LET n == NodeAt(root, ps[i])
                m == NodeAt(root', ps[i])
            IN  IF C5_Matches(n, sep) THEN C5_Canonical(m) ELSE m = n

\* C5 as stated: a persName child of a respStmt is rebuilt if and only if its
\* xml:id is "rojas" or its flattened text, all descendant text concatenated,
\* contains both "Rojas" and "Antonio"; a rebuilt entry has the two attributes
\* and the two children; any other entry is untouched.
C5_Concatenated == [][C5_Rebuilds(Empty)]_vars

\* C5 as amended: ... or its flattened text, the descendant text chunks joined
\* by one space each, contains both "Rojas" and "Antonio" ...
C5_SpaceJoined == [][C5_Rebuilds(S(" "))]_vars

\* the rule has rebuilt an entry without xml:id and left another one untouched
C5_Witness ==
    /\ applied = {"normalize_persname_rojas"}
    /\ LET ps == ChildrenOf(root0, "respStmt", "persName")
       IN  /\ \E i \in 1..Len(ps) :
                /\ ~Has(NodeAt(root0, ps[i]), "xml:id")
                /\ C5_Canonical(NodeAt(root, ps[i]))
           /\ \E i \in 1..Len(ps) :
                /\ NodeAt(root0, ps[i]).text # Empty
                /\ NodeAt(root, ps[i]) = NodeAt(root0, ps[i])

PublisherCount(n) == Len(ChildIdx(n, "publisher"))

\* what C6 says of the container the rule is to work on, at path p
C6_ForceSet(p) ==
    LET n == NodeAt(root, p)
        m == NodeAt(root', p)
    IN  /\ \E j \in 1..Len(m.children) :
             m.children[j].tag = "publisher" /\ m.children[j].text = PUBLISHER_TEXT
        /\ PublisherCount(m) = IF PublisherCount(n) = 0 THEN 1 ELSE PublisherCount(n)
        /\ ensure_publisher(root') = root'

\* C6 as stated: whenever the document has a publicationStmt, after
\* ensure_publisher the first one in document order has a publisher child with
\* the fixed text; a publisher is created only when it had none; a second run
\* changes nothing; without a publicationStmt the tree is unchanged.
C6_FirstPublicationStmt ==
    [][ Called("ensure_publisher") =>
          LET ps == Descendants(root, "publicationStmt")
          IN  IF ps = <<>> THEN root' = root ELSE C6_ForceSet(Head(ps)) ]_vars

\* C6 as amended: the same of the first publicationStmt that is a child of a
\* fileDesc; without such a publicationStmt the tree is unchanged.
C6_FirstOfFileDesc ==
    [][ Called("ensure_publisher") =>
          LET ps == ChildrenOf(root, "fileDesc", "publicationStmt")
          IN  IF ps = <<>> THEN root' = root
              ELSE /\ C6_ForceSet(Head(ps))
                   /\ root' = SetAt(root, Head(ps), NodeAt(root', Head(ps))) ]_vars

\* the rule has overwritten the text of a publisher that was there
C6_Witness ==
    /\ applied = {"ensure_publisher"}
    /\ LET ps == ChildrenOf(root0, "fileDesc", "publicationStmt")
       IN  /\ ps # <<>>
           /\ PublisherCount(NodeAt(root0, Head(ps))) > 0
           /\ PublisherCount(NodeAt(root, Head(ps))) = PublisherCount(NodeAt(root0, Head(ps)))
           /\ root # root0

\* C7: if the publicationStmt the publisher rule works on has an idno of type
\* caldracor, ensure_caldracor_id leaves the tree as it is, whatever the text
\* of that idno; if it has none, exactly one idno of type caldracor with the
\* document id as text is appended to it; the caldracor idnos it had stay.
C7_NoClobber ==
    [][ Called("ensure_caldracor_id") =>
          LET ps == ChildrenOf(root, "fileDesc", "publicationStmt")
          IN  IF ps = <<>> THEN root' = root
              ELSE LET n == NodeAt(root, Head(ps))
                       m == NodeAt(root', Head(ps))
                       last == m.children[Len(m.children)]
                   IN  IF \E j \in 1..Len(n.children) :
                             /\ n.children[j].tag = "idno"
                             /\ AttrIs(n.children[j], "type", S("caldracor"))
                       THEN root' = root
                       ELSE /\ Len(m.children) = Len(n.children) + 1
                            /\ SubSeq(m.children, 1, Len(n.children)) = n.children
                            /\ last.tag = "idno"
                            /\ last.attrs = Attrs({<<"type", S("caldracor")>>})
                            /\ last.text = basename
                            /\ last.children = <<>>
                            /\ root' = SetAt(root, Head(ps), m) ]_vars

\* the rule has run on a publicationStmt whose caldracor idno has a text other
\* than the document id
C7_Witness ==
    /\ applied = {"ensure_caldracor_id"}
    /\ LET ps == ChildrenOf(root0, "fileDesc", "publicationStmt")
       IN  /\ ps # <<>>
           /\ \E j \in 1..Len(NodeAt(root, Head(ps)).children) :
                LET c == NodeAt(root, Head(ps)).children[j]
                IN  c.tag = "idno" /\ AttrIs(c, "type", S("caldracor")) /\ c.text # basename

\* C8: ensure_creation_from_events leaves the tree as it is if there is no
\* profileDesc, or the first one has a creation child, or there is neither a
\* written nor a print event; else it appends to the first profileDesc one
\* creation holding one date, made from the first written event if there is
\* one, else from the first print event; the date has each of when, notBefore,
\* notAfter exactly if the event has it, with its value, and nothing else.
C8_CopiesPresent ==
    [][ Called("ensure_creation_from_events") =>
          LET pds == SelectSeq(Descendants(root, "profileDesc"), LAMBDA p : p # <<>>)
              written == EventsOfType(root, S("written"))
              print == EventsOfType(root, S("print"))
          IN  IF \/ pds = <<>>
                 \/ HasChild(NodeAt(root, Head(pds)), "creation")
                 \/ (written = <<>> /\ print = <<>>)
              THEN root' = root
              ELSE LET n == NodeAt(root, Head(pds))
                       m == NodeAt(root', Head(pds))
                       creation == m.children[Len(m.children)]
                       src == NodeAt(root, IF written # <<>> THEN Head(written)
                                                              ELSE Head(print))
                   IN  /\ root' = SetAt(root, Head(pds), m)
                       /\ m.children = Append(n.children, creation)
                       /\ creation.tag = "creation"
                       /\ Len(creation.children) = 1
                       /\ creation.children[1].tag = "date"
                       /\ LET date == creation.children[1]
                          IN  /\ DOMAIN date.attrs \subseteq {"when", "notBefore", "notAfter"}
                              /\ \A a \in {"when", "notBefore", "notAfter"} :
                                   /\ Has(date, a) <=> Has(src, a)
                                   /\ Has(date, a) => date.attrs[a] = src.attrs[a] ]_vars

\* C9: after ensure_langusage_spanish every profileDesc has a langUsage child;
\* one that had none gains exactly one langUsage holding exactly one language
\* with ident "spa" and text "Spanish"; one that had a langUsage is unchanged.
C9_PresenceOnly ==
    [][ Called("ensure_langusage_spanish") =>
          LET ps == Descendants(root, "profileDesc")
          IN  /\ Descendants(root', "profileDesc") = ps
              /\ \A i \in 1..Len(ps) :
                   LET n == NodeAt(root, ps[i])
                       m == NodeAt(root', ps[i])
                       last == m.children[Len(m.children)]
                   IN  /\ HasChild(m, "langUsage")
                       /\ HasChild(n, "langUsage") => m = n
                       /\ ~HasChild(n, "langUsage") =>
                            /\ m.children = Append(n.children, last)
                            /\ last.tag = "langUsage"
                            /\ Len(last.children) = 1
                            /\ last.children[1].tag = "language"
                            /\ last.children[1].attrs = Attrs({<<"ident", S("spa")>>})
                            /\ last.children[1].text = <<"Spanish">> ]_vars

\* the rule has run on a document with a profileDesc that had a langUsage of
\* other content and one that had none
C9_Witness ==
    /\ applied = {"ensure_langusage_spanish"}
    /\ LET ps == Descendants(root0, "profileDesc")
       IN  /\ \E i \in 1..Len(ps) :
                /\ HasChild(NodeAt(root0, ps[i]), "langUsage")
                /\ NodeAt(root, ps[i]) = NodeAt(root0, ps[i])
           /\ \E i \in 1..Len(ps) :
                /\ ~HasChild(NodeAt(root0, ps[i]), "langUsage")
                /\ HasChild(NodeAt(root, ps[i]), "langUsage")

\* C10 as stated: the eight rules called in any order leave the tree that
\* process_file leaves.
C10_AnyOrder == applied = Rules => root = Pipeline(root0, basename)

\* C10 as amended: the eight rules called in any order that has
\* ensure_publisher before ensure_caldracor_id and ensure_langusage_spanish
\* before ensure_creation_from_events leave the tree that process_file leaves.
C10_KeptOrder == (applied = Rules /\ ordered) => root = Pipeline(root0, basename)

\* all eight rules have run, the two pairs in the order of process_file, on a
\* document where both rules of each pair had an element to append
C10_Witness ==
    /\ applied = Rules
    /\ ordered
    /\ ensure_publisher(ensure_caldracor_id(root0, basename))
         # ensure_caldracor_id(ensure_publisher(root0), basename)
    /\ ensure_langusage_spanish(ensure_creation_from_events(root0))
         # ensure_creation_from_events(ensure_langusage_spanish(root0))

====
